---- MODULE Spec2Model ----
(***************************************************************************)
(* Model of basic_rag/simple_rag_with_langchain.ipynb: the indexing        *)
(* function convert_pdf_to_embeddings, its helper replace_tab_with_space,  *)
(* and the notebook cell that binds chunks_vector_store.                   *)
(*                                                                         *)
(* A text is a sequence of one-character strings.  A Document object is a  *)
(* heap cell [page_content, page]; lists of documents are sequences of     *)
(* heap addresses, so that in-place mutation and aliasing are visible.     *)
(* The library calls of the notebook (RecursiveCharacterTextSplitter,      *)
(* Chroma.from_documents) are modelled by the algorithm the library runs.  *)
(***************************************************************************)
EXTENDS Integers, Sequences, FiniteSets, TLC

VARIABLES
    pc,                  \* position inside convert_pdf_to_embeddings ("idle" outside)
    path,                \* argument path
    chunk_size,          \* argument chunk_size
    chunk_overlap,       \* argument chunk_overlap
    heap,                \* Document objects: address -> [page_content, page]
    documents,           \* local documents: addresses of the loaded pages
    texts,               \* local texts: addresses of the chunk documents
    cleaned_texts,       \* local cleaned_texts
    next_batch,          \* index in texts of the first chunk not yet upserted
    collection,          \* the process-wide in-memory Chroma collection "langchain"
    chunks_vector_store, \* notebook global bound by the "Get Vector Store" cell
    outcome,             \* how the last call ended: "returned" or the error raised
    builds,              \* number of calls of convert_pdf_to_embeddings so far
    release_checks,      \* the installed splitter release also refuses
                         \* chunk_size <= 0 and chunk_overlap < 0 (no version is pinned)
    arg_contents         \* history: page_content of each element of the list when
                         \* replace_tab_with_space was last entered

vars == << pc, path, chunk_size, chunk_overlap, heap, documents, texts,
           cleaned_texts, next_batch, collection, chunks_vector_store,
           outcome, builds, release_checks, arg_contents >>

(***************************************************************************)
(* Bounds of the model.                                                    *)
(***************************************************************************)
MaxBuilds == 2
MaxChunkSize == 3
MaxTextLen == 4
MaxShortLen == 2
MaxBatchSize == 2

TAB == "\t"
SPACE == " "
NEWLINE == "\n"

Alphabet == {"a", TAB, SPACE, NEWLINE}

None == "None"

\* the error TextSplitter.__init__ raises on bad chunk arguments
InvalidConfiguration == "ValueError: chunk arguments"

\* what split_text yields in place of the chunks when current_doc[0] is read
\* on an empty current_doc (no text is made of this element)
IndexError == << "IndexError" >>

(***************************************************************************)
(* Sequence helpers.                                                       *)
(***************************************************************************)
Range(s) == {s[i] : i \in 1..Len(s)}

RECURSIVE Flatten(_)
Flatten(ss) == IF ss = << >> THEN << >> ELSE Head(ss) \o Flatten(Tail(ss))

RECURSIVE TextsOfLen(_)
TextsOfLen(n) ==
    IF n = 0 THEN {<< >>}
    ELSE {Append(t, c) : t \in TextsOfLen(n - 1), c \in Alphabet}

TextsUpTo(n) == UNION {TextsOfLen(k) : k \in 0..n}

(***************************************************************************)
(* str.replace('\t', ' ') and str.strip().                                 *)
(***************************************************************************)
\* a replace that deletes the tabs instead of putting a space in their place
str_replace_tab_deleting(s) == SelectSeq(s, LAMBDA c : c # TAB)

str_replace_tab(s) == [i \in 1..Len(s) |-> IF s[i] = TAB THEN SPACE ELSE s[i]]

IsWhitespace(c) == c \in {SPACE, TAB, NEWLINE}

RECURSIVE lstrip(_)
lstrip(s) ==
    IF s # << >> /\ IsWhitespace(Head(s)) THEN lstrip(Tail(s)) ELSE s

RECURSIVE rstrip(_)
rstrip(s) ==
    IF s # << >> /\ IsWhitespace(s[Len(s)])
    THEN rstrip(SubSeq(s, 1, Len(s) - 1))
    ELSE s

strip(s) == rstrip(lstrip(s))

(***************************************************************************)
(* RecursiveCharacterTextSplitter with its default separators,             *)
(* keep_separator=True, strip_whitespace=True and length_function=len.     *)
(***************************************************************************)
Separators == << <<NEWLINE, NEWLINE>>, <<NEWLINE>>, <<SPACE>>, << >> >>

MatchAt(text, sep, i) ==
    /\ i + Len(sep) - 1 <= Len(text)
    /\ SubSeq(text, i, i + Len(sep) - 1) = sep

re_search(sep, text) == \E i \in 1..Len(text) : MatchAt(text, sep, i)

\* re.split("(sep)", text): pieces and separators alternating, leftmost
\* non-overlapping matches; cur is the piece being read.
RECURSIVE re_split_from(_, _, _, _)
re_split_from(text, sep, i, cur) ==
    IF i > Len(text) THEN << cur >>
    ELSE IF MatchAt(text, sep, i)
         THEN << cur, sep >> \o re_split_from(text, sep, i + Len(sep), << >>)
         ELSE re_split_from(text, sep, i + 1, Append(cur, text[i]))

re_split(sep, text) == re_split_from(text, sep, 1, << >>)

\* _split_text_with_regex(text, separator, keep_separator=True)
split_text_with_regex(text, separator) ==
    LET splits ==
            IF separator # << >>
            THEN LET s == re_split(separator, text)
                     pairs == [k \in 1..((Len(s) - 1) \div 2) |-> s[2 * k] \o s[2 * k + 1]]
                 IN  << s[1] >> \o pairs
            ELSE [i \in 1..Len(text) |-> << text[i] >>]
    IN  SelectSeq(splits, LAMBDA x : x # << >>)

\* separator.join(docs)
RECURSIVE str_join(_, _)
str_join(separator, docs) ==
    IF docs = << >> THEN << >>
    ELSE IF Len(docs) = 1 THEN docs[1]
    ELSE docs[1] \o separator \o str_join(separator, Tail(docs))

\* _join_docs: the joined and stripped text, as a list of zero or one chunk
\* (None is the empty list).
join_docs(docs, separator) ==
    LET text == strip(str_join(separator, docs))
    IN  IF text = << >> THEN << >> ELSE << text >>

SepLen(separator, n) == IF n THEN Len(separator) ELSE 0

\* the size test off by one
exceeds_chunk_size_off_by_one(total, len, seplen, size) == total + len + seplen > size + 1

\* the test of _merge_splits: adding a split of length len would pass chunk_size
exceeds_chunk_size(total, len, seplen, size) == total + len + seplen > size

\* the while loop of _merge_splits popping the head of current_doc
RECURSIVE pop_overlap(_, _, _, _, _, _)
pop_overlap(current_doc, total, len, separator, size, overlap) ==
    IF \/ total > overlap
       \/ /\ exceeds_chunk_size(total, len, SepLen(separator, Len(current_doc) > 0), size)
          /\ total > 0
    THEN IF current_doc = << >>
         THEN [current_doc |-> current_doc, total |-> total, raised |-> TRUE]
         ELSE pop_overlap(Tail(current_doc),
                          total - (Len(current_doc[1]) + SepLen(separator, Len(current_doc) > 1)),
                          len, separator, size, overlap)
    ELSE [current_doc |-> current_doc, total |-> total, raised |-> FALSE]

\* the for loop of _merge_splits from split number i on
RECURSIVE merge_loop(_, _, _, _, _, _, _, _)
merge_loop(splits, i, docs, current_doc, total, separator, size, overlap) ==
    IF i > Len(splits) THEN docs \o join_docs(current_doc, separator)
    ELSE
      LET d == splits[i]
          len == Len(d)
          over == exceeds_chunk_size(total, len, SepLen(separator, Len(current_doc) > 0), size)
          flush == over /\ Len(current_doc) > 0
          docs1 == IF flush THEN docs \o join_docs(current_doc, separator) ELSE docs
          kept == IF flush
                  THEN pop_overlap(current_doc, total, len, separator, size, overlap)
                  ELSE [current_doc |-> current_doc, total |-> total, raised |-> FALSE]
          cur2 == Append(kept.current_doc, d)
          total2 == kept.total + len + SepLen(separator, Len(cur2) > 1)
      IN  IF kept.raised THEN Append(docs1, IndexError)
          ELSE merge_loop(splits, i + 1, docs1, cur2, total2, separator, size, overlap)

merge_splits(splits, separator, size, overlap) ==
    merge_loop(splits, 1, << >>, << >>, 0, separator, size, overlap)

\* the separator chosen by the first loop of _split_text: index in separators
RECURSIVE pick_separator(_, _, _)
pick_separator(text, separators, i) ==
    IF i >= Len(separators) THEN Len(separators)
    ELSE IF separators[i] = << >> THEN i
    ELSE IF re_search(separators[i], text) THEN i
    ELSE pick_separator(text, separators, i + 1)

RECURSIVE split_text_rec(_, _, _, _)
RECURSIVE split_loop(_, _, _, _, _, _, _)

\* the second loop of _split_text from split number i on
split_loop(splits, i, good_splits, final_chunks, new_separators, size, overlap) ==
    IF i > Len(splits)
    THEN IF good_splits # << >>
         THEN final_chunks \o merge_splits(good_splits, << >>, size, overlap)
         ELSE final_chunks
    ELSE
      LET s == splits[i] IN
      IF Len(s) < size
      THEN split_loop(splits, i + 1, Append(good_splits, s), final_chunks,
                      new_separators, size, overlap)
      ELSE
        LET merged == IF good_splits # << >>
                      THEN final_chunks \o merge_splits(good_splits, << >>, size, overlap)
                      ELSE final_chunks
            other == IF new_separators = << >>
                     THEN << s >>
                     ELSE split_text_rec(s, new_separators, size, overlap)
        IN  split_loop(splits, i + 1, << >>, merged \o other,
                       new_separators, size, overlap)

\* RecursiveCharacterTextSplitter._split_text(text, separators)
split_text_rec(text, separators, size, overlap) ==
    LET k == pick_separator(text, separators, 1)
        separator == separators[k]
        found == separator # << >> /\ re_search(separator, text)
        new_separators == IF found THEN SubSeq(separators, k + 1, Len(separators))
                          ELSE << >>
        splits == split_text_with_regex(text, separator)
    IN  split_loop(splits, 1, << >>, << >>, new_separators, size, overlap)

split_text(text, size, overlap) == split_text_rec(text, Separators, size, overlap)

(***************************************************************************)
(* The PDF files on disk: path -> page texts, as PyPDFLoader extracts them.*)
(* "missing.pdf" does not exist.                                           *)
(***************************************************************************)
Files ==
    [p \in {"tabs.pdf", "pages.pdf", "blank.pdf", "lines.pdf"} |->
        CASE p = "tabs.pdf"  -> << <<"a", TAB, "a", "a">> >>
          [] p = "pages.pdf" -> << <<"a", "a", SPACE, "a">>, <<TAB, "a", TAB, "a", "a">> >>
          [] p = "blank.pdf" -> << <<SPACE, TAB>> >>
          [] p = "lines.pdf" -> << <<"a", NEWLINE, NEWLINE, "a", TAB>>, << >>, <<"a">> >>]

Paths == DOMAIN Files \cup {"missing.pdf"}

ChunkSizes == 0..MaxChunkSize
ChunkOverlaps == -1..MaxChunkSize

\* the embedding model: a fixed function of the text
embed(text) ==
    << Cardinality({i \in 1..Len(text) : text[i] = "a"}),
       Cardinality({i \in 1..Len(text) : text[i] = SPACE}) >>

Document(content, page) == [page_content |-> content, page |-> page]

\* loader.load(): one Document per page, in page order
load(pages) == [i \in 1..Len(pages) |-> Document(pages[i], i - 1)]

\* an argument check that also refuses an overlap equal to the size
invalid_arguments_strict(size, overlap) == overlap >= size

\* TextSplitter.__init__ raises ValueError on these arguments in every release
invalid_arguments(size, overlap) == overlap > size

\* arguments that only some releases of the splitter refuse
release_dependent_arguments(size, overlap) == size <= 0 \/ overlap < 0

\* the constructor of the installed release raises ValueError
constructor_raises(size, overlap) ==
    \/ invalid_arguments(size, overlap)
    \/ release_checks /\ release_dependent_arguments(size, overlap)

\* split_text raises IndexError on some page (the pop loop reads an empty
\* current_doc only when total > overlap holds at total = 0)
split_raises(docs, size, overlap) ==
    /\ overlap < 0
    /\ \E i \in 1..Len(docs) :
          IndexError \in Range(split_text(docs[i].page_content, size, overlap))

\* a create_documents that chunks the tab-free text of each page
create_documents_of_cleaned_pages(docs, size, overlap) ==
    Flatten([i \in 1..Len(docs) |->
        LET chunks == split_text(str_replace_tab(docs[i].page_content), size, overlap)
        IN  [k \in 1..Len(chunks) |-> Document(chunks[k], docs[i].page)]])

\* TextSplitter.create_documents: the chunk Documents of the given page
\* Documents, page by page, each page's chunks in split_text order
create_documents(docs, size, overlap) ==
    Flatten([i \in 1..Len(docs) |->
        LET chunks == split_text(docs[i].page_content, size, overlap)
        IN  [k \in 1..Len(chunks) |-> Document(chunks[k], docs[i].page)]])

\* a replace_tab_with_space that cleans copies and leaves the documents alone
replace_tab_in_copies(h, list_of_documents) == h

\* a replace_tab_with_space that rewrites every live document
replace_tab_everywhere(h, list_of_documents) ==
    [a \in DOMAIN h |-> [h[a] EXCEPT !.page_content = str_replace_tab(@)]]

\* replace_tab_with_space(list_of_documents): the heap after the loop
replace_tab_with_space(h, list_of_documents) ==
    [a \in DOMAIN h |->
        IF a \in Range(list_of_documents)
        THEN [h[a] EXCEPT !.page_content = str_replace_tab(@)]
        ELSE h[a]]

\* a create_batches that hands each slice over back to front
batch_of_reversed(ids, start) ==
    LET last == IF start + MaxBatchSize - 1 < Len(ids)
                THEN start + MaxBatchSize - 1 ELSE Len(ids)
    IN  [k \in 1..(last - start + 1) |-> ids[last - k + 1]]

\* chromadb create_batches: the slice of ids starting at position start
batch_of(ids, start) ==
    SubSeq(ids, start, IF start + MaxBatchSize - 1 < Len(ids)
                       THEN start + MaxBatchSize - 1 ELSE Len(ids))

\* Chroma.add_texts: the records upserted for a batch of chunk Documents
\* (ids are fresh uuid4 values: here the build number and the position)
add_texts(h, batch, start, build) ==
    [k \in 1..Len(batch) |->
        [id        |-> << build, start + k - 1 >>,
         document  |-> h[batch[k]].page_content,
         page      |-> h[batch[k]].page,
         embedding |-> embed(h[batch[k]].page_content)]]

\* the entries a vector store handle reads: every handle created without a
\* persist directory or collection name opens the collection "langchain" of
\* the one in-memory client of the process
IndexOf(store) == IF store = None THEN << >> ELSE collection

(***************************************************************************)
(* Actions.                                                                *)
(***************************************************************************)
Raise(error) ==
    /\ pc' = "idle"
    /\ outcome' = error
    /\ UNCHANGED chunks_vector_store

\* the cell calls convert_pdf_to_embeddings(path, ...); loader.load() succeeds
CallLoad ==
    /\ pc = "idle"
    /\ builds < MaxBuilds
    /\ \E p \in DOMAIN Files, cs \in ChunkSizes, co \in ChunkOverlaps :
          /\ path' = p
          /\ chunk_size' = cs
          /\ chunk_overlap' = co
          /\ heap' = load(Files[p])
          /\ documents' = [i \in 1..Len(Files[p]) |-> i]
    /\ builds' = builds + 1
    /\ pc' = "loaded"
    /\ outcome' = "running"
    /\ texts' = << >>
    /\ cleaned_texts' = << >>
    /\ arg_contents' = << >>
    /\ next_batch' = 0
    /\ UNCHANGED << collection, chunks_vector_store,
                    release_checks >>

\* the cell calls convert_pdf_to_embeddings(path, ...); loader.load() raises
CallLoadFail ==
    /\ pc = "idle"
    /\ builds < MaxBuilds
    /\ \E p \in Paths \ DOMAIN Files, cs \in ChunkSizes, co \in ChunkOverlaps :
          /\ path' = p
          /\ chunk_size' = cs
          /\ chunk_overlap' = co
    /\ builds' = builds + 1
    /\ heap' = << >>
    /\ documents' = << >>
    /\ texts' = << >>
    /\ cleaned_texts' = << >>
    /\ arg_contents' = << >>
    /\ next_batch' = 0
    /\ Raise("DocumentLoadFailure")
    /\ UNCHANGED << collection, release_checks >>

\* RecursiveCharacterTextSplitter(chunk_size=..., chunk_overlap=...)
MakeSplitter ==
    /\ pc = "loaded"
    /\ ~constructor_raises(chunk_size, chunk_overlap)
    /\ pc' = "splitter"
    /\ UNCHANGED << path, chunk_size, chunk_overlap, heap, documents, texts,
                    cleaned_texts, next_batch, collection, chunks_vector_store,
                    outcome, builds, arg_contents,
                    release_checks >>

MakeSplitterFail ==
    /\ pc = "loaded"
    /\ constructor_raises(chunk_size, chunk_overlap)
    /\ Raise(InvalidConfiguration)
    /\ UNCHANGED << path, chunk_size, chunk_overlap, heap, documents, texts,
                    cleaned_texts, next_batch, collection, builds, arg_contents,
                    release_checks >>

\* texts = text_splitter.split_documents(documents)
SplitDocuments ==
    /\ pc = "splitter"
    /\ ~split_raises([i \in 1..Len(documents) |-> heap[documents[i]]],
                     chunk_size, chunk_overlap)
    /\ LET pages == [i \in 1..Len(documents) |-> heap[documents[i]]]
           chunks == create_documents(pages, chunk_size, chunk_overlap)
       IN  /\ heap' = heap \o chunks
           /\ texts' = [k \in 1..Len(chunks) |-> Len(heap) + k]
    /\ pc' = "split"
    /\ UNCHANGED << path, chunk_size, chunk_overlap, documents, cleaned_texts,
                    next_batch, collection, chunks_vector_store, outcome, builds,
                    arg_contents,
                    release_checks >>

\* text_splitter.split_documents(documents) raising IndexError
SplitDocumentsFail ==
    /\ pc = "splitter"
    /\ split_raises([i \in 1..Len(documents) |-> heap[documents[i]]],
                    chunk_size, chunk_overlap)
    /\ Raise("IndexError")
    /\ UNCHANGED << path, chunk_size, chunk_overlap, heap, documents, texts,
                    cleaned_texts, next_batch, collection, builds, arg_contents,
                    release_checks >>

\* cleaned_texts = replace_tab_with_space(texts)
ReplaceTabWithSpace ==
    /\ pc = "split"
    /\ arg_contents' = [k \in 1..Len(texts) |-> heap[texts[k]].page_content]
    /\ heap' = replace_tab_with_space(heap, texts)
    /\ cleaned_texts' = texts
    /\ pc' = "cleaned"
    /\ UNCHANGED << path, chunk_size, chunk_overlap, documents, texts, next_batch,
                    collection, chunks_vector_store, outcome, builds,
                    release_checks >>

\* embeddings = HuggingFaceEmbeddings(model_name=...)
MakeEmbeddings ==
    /\ pc = "cleaned"
    /\ pc' = "embedder"
    /\ UNCHANGED << path, chunk_size, chunk_overlap, heap, documents, texts,
                    cleaned_texts, next_batch, collection, chunks_vector_store,
                    outcome, builds, arg_contents,
                    release_checks >>

MakeEmbeddingsFail ==
    /\ pc = "cleaned"
    /\ Raise("EmbeddingUnavailable")
    /\ UNCHANGED << path, chunk_size, chunk_overlap, heap, documents, texts,
                    cleaned_texts, next_batch, collection, builds, arg_contents,
                    release_checks >>

\* Chroma.from_documents(texts, embeddings): the store object opens the
\* collection (get_or_create_collection) and starts adding batches
FromDocuments ==
    /\ pc = "embedder"
    /\ pc' = "adding"
    /\ next_batch' = 1
    /\ UNCHANGED << path, chunk_size, chunk_overlap, heap, documents, texts,
                    cleaned_texts, collection, chunks_vector_store, outcome,
                    builds, arg_contents,
                    release_checks >>

\* one add_texts call: embed the batch, then upsert it
AddBatch ==
    /\ pc = "adding"
    /\ next_batch <= Len(texts)
    /\ LET batch == batch_of(texts, next_batch)
       IN  /\ collection' = collection \o add_texts(heap, batch, next_batch, builds)
           /\ next_batch' = next_batch + Len(batch)
    /\ UNCHANGED << pc, path, chunk_size, chunk_overlap, heap, documents, texts,
                    cleaned_texts, chunks_vector_store, outcome, builds,
                    arg_contents,
                    release_checks >>

\* one add_texts call whose embed_documents raises; with no chunk at all
\* add_texts is still called once, on the empty batch, and embeds it before
\* the upsert
AddBatchFail ==
    /\ pc = "adding"
    /\ next_batch <= Len(texts) \/ texts = << >>
    /\ Raise("EmbeddingUnavailable")
    /\ UNCHANGED << path, chunk_size, chunk_overlap, heap, documents, texts,
                    cleaned_texts, next_batch, collection, builds, arg_contents,
                    release_checks >>

\* no chunk at all: embed_documents of the empty batch returned, and the
\* upsert of an empty id list raises ValueError
AddNothingFail ==
    /\ pc = "adding"
    /\ texts = << >>
    /\ Raise("ValueError: empty ids")
    /\ UNCHANGED << path, chunk_size, chunk_overlap, heap, documents, texts,
                    cleaned_texts, next_batch, collection, builds, arg_contents,
                    release_checks >>

\* return vectorstore; the cell binds chunks_vector_store
Return ==
    /\ pc = "adding"
    /\ texts # << >>
    /\ next_batch > Len(texts)
    /\ pc' = "idle"
    /\ outcome' = "returned"
    /\ chunks_vector_store' = "langchain"
    /\ UNCHANGED << path, chunk_size, chunk_overlap, heap, documents, texts,
                    cleaned_texts, next_batch, collection, builds, arg_contents,
                    release_checks >>

Init ==
    /\ pc = "idle"
    /\ path = None
    /\ chunk_size = 0
    /\ chunk_overlap = 0
    /\ heap = << >>
    /\ documents = << >>
    /\ texts = << >>
    /\ cleaned_texts = << >>
    /\ arg_contents = << >>
    /\ next_batch = 0
    /\ collection = << >>
    /\ chunks_vector_store = None
    /\ outcome = None
    /\ builds = 0
    /\ release_checks \in BOOLEAN

Next ==
    \/ CallLoad
    \/ CallLoadFail
    \/ MakeSplitter
    \/ MakeSplitterFail
    \/ SplitDocuments
    \/ SplitDocumentsFail
    \/ ReplaceTabWithSpace
    \/ MakeEmbeddings
    \/ MakeEmbeddingsFail
    \/ FromDocuments
    \/ AddBatch
    \/ AddBatchFail
    \/ AddNothingFail
    \/ Return

Spec == Init /\ [][Next]_vars

(***************************************************************************)
(* One build of an arbitrary loaded document: the state right after        *)
(* loader.load() returned, for every document within the bounds and every  *)
(* chunk_overlap >= 0 (split_documents raises only on a negative one).     *)
(***************************************************************************)
OnePage == {<< t >> : t \in TextsUpTo(MaxTextLen)}
TwoPages == {<< t, u >> : t \in TextsUpTo(MaxShortLen), u \in TextsUpTo(MaxShortLen)}

InitOne ==
    /\ pc = "loaded"
    /\ path = "document.pdf"
    /\ chunk_size \in ChunkSizes
    /\ chunk_overlap \in ChunkOverlaps \cap Nat
    /\ \E pages \in OnePage \cup TwoPages :
          /\ heap = load(pages)
          /\ documents = [i \in 1..Len(pages) |-> i]
    /\ texts = << >>
    /\ cleaned_texts = << >>
    /\ arg_contents = << >>
    /\ next_batch = 0
    /\ collection = << >>
    /\ chunks_vector_store = None
    /\ outcome = "running"
    /\ builds = 1
    \* the release matters to this one call only through these arguments
    /\ release_checks \in IF release_dependent_arguments(chunk_size, chunk_overlap)
                          THEN BOOLEAN ELSE {TRUE}

NextOne ==
    \/ MakeSplitter
    \/ MakeSplitterFail
    \/ SplitDocuments
    \/ ReplaceTabWithSpace
    \/ MakeEmbeddings
    \/ MakeEmbeddingsFail
    \/ FromDocuments
    \/ AddBatch
    \/ AddBatchFail
    \/ AddNothingFail
    \/ Return

SpecOne == InitOne /\ [][NextOne]_vars

(***************************************************************************)
(* replace_tab_with_space called on an arbitrary list of documents.        *)
(***************************************************************************)
InitNorm ==
    /\ pc = "split"
    /\ path = None
    /\ chunk_size = 0
    /\ chunk_overlap = 0
    /\ \E pages \in OnePage \cup TwoPages :
          /\ heap = load(pages)
          /\ texts \in {<< >>, << 1 >>, << Len(pages) >>, << 1, Len(pages) >>}
    /\ documents = << >>
    /\ cleaned_texts = << >>
    /\ arg_contents = << >>
    /\ next_batch = 0
    /\ collection = << >>
    /\ chunks_vector_store = None
    /\ outcome = "running"
    /\ builds = 1
    /\ release_checks = TRUE

NextNorm == ReplaceTabWithSpace

SpecNorm == InitNorm /\ [][NextNorm]_vars

(***************************************************************************)
(* Properties.                                                             *)
(***************************************************************************)
PageText(i) == heap[documents[i]].page_content

StoredTexts(entries) == [k \in 1..Len(entries) |-> entries[k].document]

\* the entries upserted by the current (latest) call
ThisBuild == SelectSeq(collection, LAMBDA e : e.id[1] = builds)

TabsAsSpaces(t) == [i \in 1..Len(t) |-> IF t[i] = TAB THEN SPACE ELSE t[i]]

\* chunks of the raw pages, and chunks of the tab-free pages, in page order
ChunksOfRaw ==
    Flatten([i \in 1..Len(documents) |-> split_text(PageText(i), chunk_size, chunk_overlap)])

ChunksOfNormalized ==
    Flatten([i \in 1..Len(documents) |->
        split_text(TabsAsSpaces(PageText(i)), chunk_size, chunk_overlap)])

CleanedChunksOfRaw == [k \in 1..Len(ChunksOfRaw) |-> TabsAsSpaces(ChunksOfRaw[k])]

Failed == pc = "idle" /\ outcome \notin {None, "running", "returned"}

\* C1 (as claimed): the chunks a build stores are the chunks of the
\* normalized (tab-free) page texts.
C1_NormalizedThenChunked ==
    outcome = "returned" => StoredTexts(ThisBuild) = ChunksOfNormalized

\* C1 (amended): a build chunks the raw page texts and then replaces the
\* tabs of each chunk; the stored chunks are the raw chunks with every tab
\* replaced by a space.
C1_ChunkedThenNormalized ==
    outcome = "returned" => StoredTexts(ThisBuild) = CleanedChunksOfRaw

C1_Witness ==
    /\ outcome = "returned"
    /\ ChunksOfNormalized # CleanedChunksOfRaw

\* C2: after a failed build no entry of that build is visible through the
\* vector store handle, and a returned index holds an entry per chunk.
C2_AllOrNothing ==
    /\ Failed =>
          \A k \in 1..Len(IndexOf(chunks_vector_store)) :
              IndexOf(chunks_vector_store)[k].id[1] # builds
    /\ (pc = "idle" /\ outcome = "returned") =>
          StoredTexts(ThisBuild) = CleanedChunksOfRaw

\* C3 (as claimed): with chunk_size <= 0, chunk_overlap < 0 or
\* chunk_overlap >= chunk_size the call ends in InvalidConfiguration and
\* nothing was loaded, chunked or inserted.
C3_RejectedBeforeAnyWork ==
    (builds > 0 /\ (chunk_size <= 0 \/ chunk_overlap < 0 \/ chunk_overlap >= chunk_size)) =>
        /\ documents = << >>
        /\ texts = << >>
        /\ next_batch = 0
        /\ pc = "idle" => outcome = InvalidConfiguration

\* C3 (amended): a call with chunk_overlap > chunk_size, and, where the
\* installed splitter release checks them, a call with chunk_size <= 0 or
\* chunk_overlap < 0, stops with the ValueError of the splitter's
\* constructor, after the document was loaded (a load failure is reported
\* first) and before any chunking or insertion; a release that does not
\* check them lets chunk_size <= 0 and chunk_overlap < 0 pass the
\* constructor, and chunk_overlap = chunk_size > 0 is never refused.
C3_RejectedAtSplitter ==
    /\ (/\ builds > 0
        /\ \/ chunk_overlap > chunk_size
           \/ release_checks /\ (chunk_size <= 0 \/ chunk_overlap < 0)) =>
          /\ pc \in {"loaded", "idle"}
          /\ texts = << >>
          /\ next_batch = 0
          /\ ThisBuild = << >>
          /\ pc = "idle" =>
                IF path \in DOMAIN Files
                THEN outcome = InvalidConfiguration /\ documents # << >>
                ELSE outcome = "DocumentLoadFailure"
    /\ (/\ builds > 0
        /\ chunk_overlap <= chunk_size
        /\ release_checks => (chunk_size > 0 /\ chunk_overlap >= 0)) =>
          outcome # InvalidConfiguration

C3_Witness ==
    /\ pc = "idle"
    /\ outcome = InvalidConfiguration
    /\ chunk_overlap > chunk_size
    /\ documents # << >>
    /\ texts = << >>

\* reached as well: a release without the extra checks builds an index with
\* chunk_size = 0, and an equal size and overlap builds one in any release
C3_WitnessUnchecked ==
    /\ pc = "idle"
    /\ outcome = "returned"
    /\ ~release_checks
    /\ chunk_size = 0

C3_WitnessEqual ==
    /\ pc = "idle"
    /\ outcome = "returned"
    /\ release_checks
    /\ chunk_overlap = chunk_size

\* C4: the index a build returns holds exactly the entries of the document
\* of that build, once each, and nothing of an earlier build.
C4_FreshIndex ==
    (pc = "idle" /\ outcome = "returned") =>
        LET index == IndexOf(chunks_vector_store) IN
        /\ StoredTexts(index) = CleanedChunksOfRaw
        /\ \A k \in 1..Len(index) : index[k].id = << builds, k >>

\* C5: replace_tab_with_space succeeds on any text, the empty one included,
\* and the result has the length of the input, a space wherever the input
\* had a tab and the input's character everywhere else.
C5_TabsBecomeSpaces ==
    /\ pc = "split" => ENABLED ReplaceTabWithSpace
    /\ pc = "cleaned" =>
          \A k \in 1..Len(cleaned_texts) :
              LET in == arg_contents[k]
                  out == heap[cleaned_texts[k]].page_content
              IN  /\ Len(out) = Len(in)
                  /\ \A i \in 1..Len(in) :
                        /\ out[i] # TAB
                        /\ in[i] = TAB => out[i] = SPACE
                        /\ in[i] # TAB => out[i] = in[i]

C5_Witness ==
    /\ pc = "cleaned"
    /\ \E k \in 1..Len(arg_contents) : arg_contents[k] = << >>
    /\ \E k \in 1..Len(arg_contents) : TAB \in Range(arg_contents[k])

\* C6 (as claimed): after replace_tab_with_space the documents it was given
\* still hold their original content.
C6_ArgumentUnchanged ==
    pc = "cleaned" =>
        \A k \in 1..Len(texts) : heap[texts[k]].page_content = arg_contents[k]

\* C6 (amended): replace_tab_with_space rewrites the documents of its list
\* in place and returns that list; the documents that are not in the list
\* (the loaded pages) keep their content.
C6_RewrittenInPlace ==
    pc = "cleaned" =>
        /\ \A k \in 1..Len(texts) :
              heap[texts[k]].page_content = TabsAsSpaces(arg_contents[k])
        /\ cleaned_texts = texts
        /\ \A i \in 1..Len(documents) : PageText(i) = Files[path][i]

C6_Witness ==
    /\ pc = "cleaned"
    /\ \E k \in 1..Len(texts) : TAB \in Range(arg_contents[k])
    /\ \E i \in 1..Len(documents) : TAB \in Range(PageText(i))

\* C7: with 0 < chunk_overlap < chunk_size every chunk the splitter makes,
\* and every chunk stored in the index, is at most chunk_size long.
C7_ChunkLength ==
    (0 < chunk_overlap /\ chunk_overlap < chunk_size) =>
        /\ \A k \in 1..Len(texts) : Len(heap[texts[k]].page_content) <= chunk_size
        /\ \A k \in 1..Len(collection) : Len(collection[k].document) <= chunk_size

C7_Witness ==
    /\ outcome = "returned"
    /\ 0 < chunk_overlap /\ chunk_overlap < chunk_size
    /\ Len(collection) >= 2
    /\ \E k \in 1..Len(collection) : Len(collection[k].document) = chunk_size

\* C8: a build inserts the chunks in document order: pages in page order,
\* the chunks of a page in their order in the page, numbered without gaps.
C8_SequenceOrder ==
    outcome = "returned" =>
        LET E == ThisBuild IN
        /\ \A i, j \in 1..Len(E) : i < j => E[i].page <= E[j].page
        /\ \A i \in 1..Len(E) : E[i].id[2] = i
        /\ \A p \in 1..Len(documents) :
              LET chunks == split_text(PageText(p), chunk_size, chunk_overlap)
              IN  StoredTexts(SelectSeq(E, LAMBDA e : e.page = p - 1))
                    = [k \in 1..Len(chunks) |-> TabsAsSpaces(chunks[k])]

C8_Witness ==
    /\ outcome = "returned"
    /\ Len(documents) = 2
    /\ Len(ThisBuild) > MaxBatchSize
    /\ \E k \in 1..Len(ThisBuild) : ThisBuild[k].page = 0
    /\ \E k \in 2..Len(ThisBuild) :
          /\ ThisBuild[k].page = 1
          /\ ThisBuild[k - 1].page = 1
          /\ ThisBuild[k].document # ThisBuild[k - 1].document

\* C10: no stored chunk holds a tab, because replace_tab_with_space rewrote
\* the chunk documents of texts themselves: cleaned_texts is texts, with the
\* elements it had when the function was entered.
C10_StoredChunksTabFree ==
    /\ \A k \in 1..Len(collection) : TAB \notin Range(collection[k].document)
    /\ (pc \in {"cleaned", "embedder", "adding"} \/ outcome = "returned") =>
          /\ cleaned_texts = texts
          /\ Len(arg_contents) = Len(texts)
          /\ \A k \in 1..Len(texts) : TAB \notin Range(heap[texts[k]].page_content)

C10_Witness ==
    /\ outcome = "returned"
    /\ \E k \in 1..Len(arg_contents) : TAB \in Range(arg_contents[k])

====
